---- MODULE Spec2Model ----
(***************************************************************************)
(* Request-scoped credential/configuration overrides of the OSDU MCP       *)
(* server: the request context store (shared/request_context.py), the      *)
(* header extraction middleware and the application assembly (http_app.py),*)
(* the entry point (main.py) and the auth resolver that consults the       *)
(* store.                                                                  *)
(*                                                                         *)
(* Python strings and bytes are sequences of one-character strings.  The   *)
(* latin-1 encoding maps code points 0..255 to the same byte values, so a  *)
(* header value and its decoded string are the same sequence.  None and a  *)
(* ContextVar that holds no value are two sentinels that no sequence of    *)
(* one-character strings equals.                                           *)
(***************************************************************************)
EXTENDS Naturals, Sequences, FiniteSets

VARIABLES
    store,        \* the ContextVars of request_context.py, per task context
    pc,           \* where each task is in TokenExtractionMiddleware.__call__
    scope,        \* the ASGI scope each task's __call__ was given
    app_outcome,  \* how the downstream app ended for the task
    result,       \* how __call__ itself ended for the task
    requests,     \* number of requests started so far
    written,      \* per context: metadata this context wrote since its last clear
    config,       \* static configuration of the auth resolver
    auth,         \* per context: the last get_access_token() call
    last_op,      \* per context: the last direct call that wrote user_token
    ops,          \* number of direct store / resolver calls made so far
    app,          \* the server that main() or create_http_app() has started
    http          \* per task: the HTTP request it serves and the response

vars == <<store, pc, scope, app_outcome, result, requests, written, config, auth,
          last_op, ops, app, http>>

-----------------------------------------------------------------------------
(* Bounds *)

NumTasks == 2
MaxRequests == 3
MaxOps == 4
MaxHeaderRequests == 2

Tasks == 1..NumTasks

-----------------------------------------------------------------------------
(* Python values *)

None == <<"None">>
Unset == <<"Unset">>

\* Python truthiness of an `str | None`: None and "" are falsy.
Truthy(v) == v # None /\ v # <<>>

UpperLetters == <<"A","B","C","D","E","F","G","H","I","J","K","L","M",
                  "N","O","P","Q","R","S","T","U","V","W","X","Y","Z">>
LowerLetters == <<"a","b","c","d","e","f","g","h","i","j","k","l","m",
                  "n","o","p","q","r","s","t","u","v","w","x","y","z">>

LowerOf ==
    [c \in {UpperLetters[i] : i \in DOMAIN UpperLetters} |->
        LowerLetters[CHOOSE i \in DOMAIN UpperLetters : UpperLetters[i] = c]]

UpperOf ==
    [c \in {LowerLetters[i] : i \in DOMAIN LowerLetters} |->
        UpperLetters[CHOOSE i \in DOMAIN LowerLetters : LowerLetters[i] = c]]

LowerChar(c) == IF c \in DOMAIN LowerOf THEN LowerOf[c] ELSE c

UpperChar(c) == IF c \in DOMAIN UpperOf THEN UpperOf[c] ELSE c

\* str.lower()
Lower(s) == [i \in DOMAIN s |-> LowerChar(s[i])]

\* str.startswith(prefix)
StartsWith(s, prefix) ==
    /\ Len(s) >= Len(prefix)
    /\ \A i \in DOMAIN prefix : s[i] = prefix[i]

\* s[n:]
DropFirst(s, n) == IF Len(s) <= n THEN <<>> ELSE SubSeq(s, n + 1, Len(s))

RStripOnce(s, ch) ==
    IF s # <<>> /\ s[Len(s)] = ch THEN SubSeq(s, 1, Len(s) - 1) ELSE s

\* str.rstrip(ch)
RECURSIVE RStrip(_, _)
RStrip(s, ch) ==
    IF s # <<>> /\ s[Len(s)] = ch THEN RStrip(SubSeq(s, 1, Len(s) - 1), ch) ELSE s

-----------------------------------------------------------------------------
(* dict objects *)

EmptyDict == <<>>

DictSet(d, key, value) ==
    [k \in (DOMAIN d) \cup {key} |-> IF k = key THEN value ELSE d[k]]

DictGet(d, key, default) == IF key \in DOMAIN d THEN d[key] ELSE default

-----------------------------------------------------------------------------
(* shared/request_context.py *)

\* Every ContextVar in a context that has not set it.  _request_metadata's
\* default is ONE dict object, created at import: store.default_metadata.
\* metadata_ref says which dict object the variable refers to in a context:
\* "unset" (get() yields the default object), "default" (set to the default
\* object itself), or "own" (set to a dict only this context refers to).
NewContextStore(S, t) ==
    [S EXCEPT !.user_token[t] = Unset,
              !.server_url[t] = Unset,
              !.data_partition[t] = Unset,
              !.metadata_ref[t] = "unset",
              !.own_metadata[t] = EmptyDict,
              !.events[t] = <<>>,
              !.app_args[t] = None]

\* ContextVar.get() with default=None
VarGet(v) == IF v = Unset THEN None ELSE v

set_request_user_token_shared(S, t, token) ==
    [S EXCEPT !.user_token = [u \in Tasks |-> token]]

set_request_user_token_keeps_first(S, t, token) ==
    IF VarGet(S.user_token[t]) = None THEN [S EXCEPT !.user_token[t] = token] ELSE S

set_request_user_token(S, t, token) == [S EXCEPT !.user_token[t] = token]

get_request_user_token_reads_url(S, t) == VarGet(S.server_url[t])

get_request_user_token(S, t) == VarGet(S.user_token[t])

clear_request_user_token_noop(S, t) == S

clear_request_user_token(S, t) == [S EXCEPT !.user_token[t] = None]

set_request_server_url(S, t, url) == [S EXCEPT !.server_url[t] = url]

get_request_server_url(S, t) == VarGet(S.server_url[t])

clear_request_server_url(S, t) == [S EXCEPT !.server_url[t] = None]

set_request_data_partition(S, t, partition) ==
    [S EXCEPT !.data_partition[t] = partition]

get_request_data_partition(S, t) == VarGet(S.data_partition[t])

clear_request_data_partition(S, t) == [S EXCEPT !.data_partition[t] = None]

\* _request_metadata.get(): the dict object the context sees
CurrentMetadata(S, t) ==
    IF S.metadata_ref[t] = "own" THEN S.own_metadata[t] ELSE S.default_metadata

\* current = _request_metadata.get(); current[key] = value;
\* _request_metadata.set(current).  The item assignment mutates the object
\* get() returned, which is the shared default object unless this context
\* has replaced it by clear_request_metadata().
set_request_metadata(S, t, key, value) ==
    IF S.metadata_ref[t] = "own"
    THEN [S EXCEPT !.own_metadata[t] = DictSet(@, key, value)]
    ELSE [S EXCEPT !.default_metadata = DictSet(@, key, value),
                   !.metadata_ref[t] = "default"]

get_request_metadata(S, t, key, default) ==
    DictGet(CurrentMetadata(S, t), key, default)

\* _request_metadata.set({}): a new, empty dict object
clear_request_metadata(S, t) ==
    [S EXCEPT !.metadata_ref[t] = "own", !.own_metadata[t] = EmptyDict]

-----------------------------------------------------------------------------
(* http_app.py: header names *)

USER_TOKEN_HEADER == <<"o", "s", "d", "u", "_", "m", "c", "p", "_", "u", "s", "e", "r", "_", "t", "o", "k", "e", "n">>
ALT_TOKEN_HEADERS ==
    << <<"o", "s", "d", "u", "-", "m", "c", "p", "-", "u", "s", "e", "r", "-", "t", "o", "k", "e", "n">>,
       <<"x", "-", "o", "s", "d", "u", "-", "m", "c", "p", "-", "u", "s", "e", "r", "-", "t", "o", "k", "e", "n">> >>

SERVER_URL_HEADER == <<"o", "s", "d", "u", "_", "m", "c", "p", "_", "s", "e", "r", "v", "e", "r", "_", "u", "r", "l">>
ALT_SERVER_URL_HEADERS ==
    << <<"o", "s", "d", "u", "-", "m", "c", "p", "-", "s", "e", "r", "v", "e", "r", "-", "u", "r", "l">>,
       <<"x", "-", "o", "s", "d", "u", "-", "m", "c", "p", "-", "s", "e", "r", "v", "e", "r", "-", "u", "r", "l">> >>

DATA_PARTITION_HEADER == <<"o", "s", "d", "u", "_", "m", "c", "p", "_", "d", "a", "t", "a", "_", "p", "a", "r", "t", "i", "t", "i", "o", "n">>
ALT_DATA_PARTITION_HEADERS ==
    << <<"o", "s", "d", "u", "-", "m", "c", "p", "-", "d", "a", "t", "a", "-", "p", "a", "r", "t", "i", "t", "i", "o", "n">>,
       <<"x", "-", "o", "s", "d", "u", "-", "m", "c", "p", "-", "d", "a", "t", "a", "-", "p", "a", "r", "t", "i", "t", "i", "o", "n">> >>

\* the literals of __call__
BearerPrefix == <<"b", "e", "a", "r", "e", "r", " ">>
BearerPrefixLen == 7
Slash == "/"
HttpHeader == <<"h", "t", "t", "p", "_", "h", "e", "a", "d", "e", "r">>

TokenHeaderNames == <<USER_TOKEN_HEADER>> \o ALT_TOKEN_HEADERS
ServerUrlHeaderNames == <<SERVER_URL_HEADER>> \o ALT_SERVER_URL_HEADERS
DataPartitionHeaderNames == <<DATA_PARTITION_HEADER>> \o ALT_DATA_PARTITION_HEADERS

-----------------------------------------------------------------------------
(* http_app.py: TokenExtractionMiddleware *)

\* scope["headers"] as the ASGI server builds it from the request: a list of
\* (name, value) pairs in request order, the names lower-cased.
AsgiHeaders(wire) == [i \in DOMAIN wire |-> <<Lower(wire[i][1]), wire[i][2]>>]

\* dict(scope.get("headers", [])): a later pair replaces an earlier one of
\* the same name.
HeadersDict(hs) ==
    [n \in {hs[i][1] : i \in DOMAIN hs} |->
        LET last == CHOOSE i \in DOMAIN hs :
                        /\ hs[i][1] = n
                        /\ \A j \in DOMAIN hs : hs[j][1] = n => j <= i
        IN  hs[last][2]]

extract_header_no_alternatives(headers, header_names) ==
    IF header_names = <<>> THEN None
    ELSE IF Lower(Head(header_names)) \in DOMAIN headers
         THEN headers[Lower(Head(header_names))]
         ELSE None

RECURSIVE extract_header_skips_empty(_, _)
extract_header_skips_empty(headers, header_names) ==
    IF header_names = <<>> THEN None
    ELSE LET header_bytes == Lower(Head(header_names))
         IN  IF header_bytes \in DOMAIN headers /\ headers[header_bytes] # <<>>
             THEN headers[header_bytes]
             ELSE extract_header_skips_empty(headers, Tail(header_names))

RECURSIVE extract_header(_, _)
extract_header(headers, header_names) ==
    IF header_names = <<>> THEN None
    ELSE LET header_bytes == Lower(Head(header_names))
         IN  IF header_bytes \in DOMAIN headers
             THEN headers[header_bytes]
             ELSE extract_header(headers, Tail(header_names))

\* history of the steps of __call__ in a task (not program state)
Event(S, t, e) == [S EXCEPT !.events[t] = Append(@, e)]

StripBearerCaseSensitive(token) ==
    IF StartsWith(token, <<"B", "e", "a", "r", "e", "r", " ">>)
    THEN DropFirst(token, BearerPrefixLen)
    ELSE token

\* the value set_request_user_token() is given for a truthy header value
StripBearer(token) ==
    IF StartsWith(Lower(token), BearerPrefix)
    THEN DropFirst(token, BearerPrefixLen)
    ELSE token

TokenBranchClearsOthers(S, t, headers) ==
    LET token == extract_header(headers, TokenHeaderNames)
    IN  IF Truthy(token)
        THEN set_request_metadata(
                 set_request_user_token(
                     clear_request_data_partition(clear_request_server_url(S, t), t),
                     t, StripBearer(token)),
                 t, "token_source", HttpHeader)
        ELSE S

TokenBranch(S, t, headers) ==
    LET token == extract_header(headers, TokenHeaderNames)
    IN  IF Truthy(token)
        THEN set_request_metadata(
                 set_request_user_token(S, t, StripBearer(token)),
                 t, "token_source", HttpHeader)
        ELSE S

ServerUrlBranch(S, t, headers) ==
    LET server_url == extract_header(headers, ServerUrlHeaderNames)
    IN  IF Truthy(server_url)
        THEN set_request_metadata(
                 set_request_server_url(S, t, RStrip(server_url, Slash)),
                 t, "server_url_source", HttpHeader)
        ELSE S

DataPartitionBranchNormalised(S, t, headers) ==
    LET data_partition == extract_header(headers, DataPartitionHeaderNames)
    IN  IF Truthy(data_partition)
        THEN set_request_metadata(
                 set_request_data_partition(S, t, RStrip(data_partition, Slash)),
                 t, "data_partition_source", HttpHeader)
        ELSE S

DataPartitionBranch(S, t, headers) ==
    LET data_partition == extract_header(headers, DataPartitionHeaderNames)
    IN  IF Truthy(data_partition)
        THEN set_request_metadata(
                 set_request_data_partition(S, t, data_partition),
                 t, "data_partition_source", HttpHeader)
        ELSE S

\* the finally block
FinallyKeepsMetadata(S, t) ==
    Event(clear_request_data_partition(
              clear_request_server_url(
                  clear_request_user_token(S, t), t), t),
          t, "cleanup")

Finally(S, t) ==
    Event(clear_request_metadata(
              clear_request_data_partition(
                  clear_request_server_url(
                      clear_request_user_token(S, t), t), t), t),
          t, "cleanup")

\* lines 79-114: everything __call__ does before it awaits the app
ExtractionThenCleanup(S, t, headers) ==
    Finally(Event(DataPartitionBranch(
                      ServerUrlBranch(TokenBranch(S, t, headers), t, headers),
                      t, headers),
                  t, "extract"), t)

Extraction(S, t, headers) ==
    Event(DataPartitionBranch(
              ServerUrlBranch(TokenBranch(S, t, headers), t, headers),
              t, headers),
          t, "extract")

IsRequestScopeAlways(sc) == TRUE

IsRequestScope(sc) == sc.type \in {"http", "websocket"}

\* await self.app(scope, receive, send): the call and the scope it is given
\* are history, not program state
AppCall(S, t, sc) ==
    [Event(S, t, "app_call") EXCEPT !.app_args[t] = <<sc.type, sc.wire>>]

CallEnterRejectsWithoutToken(S, t, sc) ==
    IF ~IsRequestScope(sc)
    THEN AppCall(S, t, sc)
    ELSE IF Truthy(extract_header(HeadersDict(AsgiHeaders(sc.wire)), TokenHeaderNames))
         THEN AppCall(Extraction(S, t, HeadersDict(AsgiHeaders(sc.wire))), t, sc)
         ELSE Extraction(S, t, HeadersDict(AsgiHeaders(sc.wire)))

\* __call__ up to the point where the downstream app runs
CallEnter(S, t, sc) ==
    IF ~IsRequestScope(sc)
    THEN AppCall(S, t, sc)
    ELSE AppCall(Extraction(S, t, HeadersDict(AsgiHeaders(sc.wire))), t, sc)

\* __call__ from the point where the downstream app has ended
CallExit(S, t, sc) ==
    IF ~IsRequestScope(sc)
    THEN Event(S, t, "app_exit")
    ELSE Finally(Event(S, t, "app_exit"), t)

\* try/finally: an exception of the finally block replaces the pending one;
\* the clear_* functions raise nothing, so the block always ends normally.
try_finally_swallows(app_out, finally_out) == "returned"

try_finally(app_out, finally_out) ==
    IF finally_out # "ok" THEN finally_out
    ELSE IF app_out = "return" THEN "returned" ELSE app_out

FinallyOutcome == "ok"

-----------------------------------------------------------------------------
(* Requests *)

\* a header name as a client may spell it: HTTP header names are
\* case-insensitive
WithCase(name, pattern) ==
    [i \in DOMAIN name |->
        CASE pattern = "lower" -> name[i]
          [] pattern = "upper" -> UpperChar(name[i])
          [] pattern = "title" ->
                IF i = 1 \/ name[i - 1] \in {"-", "_"}
                THEN UpperChar(name[i]) ELSE name[i]
          [] OTHER -> IF i % 2 = 1 THEN UpperChar(name[i]) ELSE name[i]]

CasePatterns == {"lower", "upper", "title", "mixed"}

\* values that differ from task to task
Digits == <<"1", "2", "3", "4", "5", "6", "7", "8", "9">>
TaskChar(t) == Digits[t]
TokenOf(t) == <<"t", "k", TaskChar(t)>>
BearerTokenOf(t) == <<"B", "e", "a", "r", "e", "r", " ", "t", "k", TaskChar(t)>>
UrlOf(t) == <<"h", ":", "/", "/", TaskChar(t), "/">>
PartitionOf(t) == <<"p", TaskChar(t)>>
OtherOf(t) == <<"o", TaskChar(t)>>

\* a request with the three canonical headers
FullRequest(t) ==
    << <<USER_TOKEN_HEADER, TokenOf(t)>>,
       <<SERVER_URL_HEADER, UrlOf(t)>>,
       <<DATA_PARTITION_HEADER, PartitionOf(t)>> >>

\* a request with a Bearer token under an alternative name, in title case
BearerRequest(t) ==
    << <<WithCase(ALT_TOKEN_HEADERS[1], "title"), BearerTokenOf(t)>> >>

\* the http requests of the concurrent specification that task t may send
TaskRequests(t) == {<<>>, FullRequest(t)}

ScopeTypes == {"http", "websocket", "lifespan"}

\* the scopes task t may be called with: http requests, a websocket
\* connection, and a lifespan scope (which has no headers)
TaskScopes(t) ==
    {<<"http", wire>> : wire \in TaskRequests(t)}
    \cup {<<"websocket", BearerRequest(t)>>, <<"lifespan", <<>> >>}
Errors == {"ValueError", "CancelledError"}

\* type: scope["type"]; wire: the request's headers as the client sent them,
\* from which the server builds scope["headers"]; solo (no other request has
\* been in flight since this one started) is history, not program state.
NoScope == [type |-> "none", wire |-> <<>>, solo |-> TRUE]

MakeScope(type, wire, solo) == [type |-> type, wire |-> wire, solo |-> solo]

-----------------------------------------------------------------------------
(* Initial state *)

InitStore ==
    [user_token |-> [t \in Tasks |-> Unset],
     server_url |-> [t \in Tasks |-> Unset],
     data_partition |-> [t \in Tasks |-> Unset],
     metadata_ref |-> [t \in Tasks |-> "unset"],
     own_metadata |-> [t \in Tasks |-> EmptyDict],
     default_metadata |-> EmptyDict,
     events |-> [t \in Tasks |-> <<>>],
     app_args |-> [t \in Tasks |-> None]]

NoAuth ==
    [kind |-> "none", value |-> None, source |-> "none", error |-> "none",
     held |-> None, after |-> "none"]

NoConfig == [static_token |-> None, provider |-> "none"]

\* no server has been started
NoApp ==
    [setting |-> "none", started |-> 0,
     runner |-> "none", transport |-> "none", factory |-> "none",
     host |-> "none", port |-> 0, enable_cors |-> FALSE, middleware |-> <<>>,
     routes |-> <<>>, allow_origins |-> <<>>]

\* no HTTP request has been served
NoHttp ==
    [method |-> "none", path |-> "none", origin |-> "absent", acrm |-> "absent",
     status |-> 0, body |-> "", allow_origin |-> "absent", by |-> "none",
     seen_token |-> None]

InitCommon ==
    /\ store = InitStore
    /\ pc = [t \in Tasks |-> "idle"]
    /\ scope = [t \in Tasks |-> NoScope]
    /\ app_outcome = [t \in Tasks |-> "none"]
    /\ result = [t \in Tasks |-> "none"]
    /\ requests = 0
    /\ written = [t \in Tasks |-> EmptyDict]
    /\ auth = [t \in Tasks |-> NoAuth]
    /\ last_op = [t \in Tasks |-> "none"]
    /\ ops = 0
    /\ http = [t \in Tasks |-> NoHttp]

Init == InitCommon /\ config = NoConfig /\ app = NoApp

-----------------------------------------------------------------------------
(* Actions of the middleware *)

\* a task enters __call__ with a scope and runs to `await self.app(...)`
Call(t, type, wire) ==
    /\ pc[t] = "idle"
    /\ requests < MaxRequests
    /\ requests' = requests + 1
    /\ scope' = [u \in Tasks |->
                    IF u = t
                    THEN MakeScope(type, wire, \A o \in Tasks : pc[o] # "dispatch")
                    ELSE IF pc[u] = "dispatch"
                         THEN [scope[u] EXCEPT !.solo = FALSE]
                         ELSE scope[u]]
    /\ store' = CallEnter(store, t, scope'[t])
    /\ pc' = [pc EXCEPT ![t] = "dispatch"]
    /\ UNCHANGED <<app_outcome, result, written, config, auth, last_op, ops, app, http>>

\* the downstream app ends (returns, raises, or is cancelled at the await)
\* and __call__ runs to its end
AppEnds(t, outcome) ==
    /\ pc[t] = "dispatch"
    /\ app_outcome' = [app_outcome EXCEPT ![t] = outcome]
    /\ store' = CallExit(store, t, scope[t])
    /\ result' = [result EXCEPT ![t] =
                    IF IsRequestScope(scope[t])
                    THEN try_finally(outcome, FinallyOutcome)
                    ELSE try_finally(outcome, "ok")]
    /\ pc' = [pc EXCEPT ![t] = "done"]
    /\ UNCHANGED <<scope, requests, written, config, auth, last_op, ops, app, http>>

AppReturns(t) == AppEnds(t, "return")

AppRaises(t, e) == AppEnds(t, e)

\* the next request is served by a new task, whose context is a copy of the
\* server's (no ContextVar set), or by the same context again
NextRequest(t, fresh) ==
    /\ pc[t] = "done"
    /\ pc' = [pc EXCEPT ![t] = "idle"]
    /\ store' = IF fresh THEN NewContextStore(store, t)
                ELSE [store EXCEPT !.events[t] = <<>>, !.app_args[t] = None]
    /\ scope' = [scope EXCEPT ![t] = NoScope]
    /\ app_outcome' = [app_outcome EXCEPT ![t] = "none"]
    /\ result' = [result EXCEPT ![t] = "none"]
    /\ http' = [http EXCEPT ![t] = NoHttp]
    /\ UNCHANGED <<requests, written, config, auth, last_op, ops, app>>

Next ==
    \/ \E t \in Tasks : \E sc \in TaskScopes(t) : Call(t, sc[1], sc[2])
    \/ \E t \in Tasks : AppReturns(t)
    \/ \E t \in Tasks, e \in Errors : AppRaises(t, e)
    \/ \E t \in Tasks, fresh \in BOOLEAN : NextRequest(t, fresh)

Spec == Init /\ [][Next]_vars

-----------------------------------------------------------------------------
(* Properties of the middleware under concurrent and sequential requests *)

SourceKeys == {"token_source", "server_url_source", "data_partition_source"}

\* v carries the mark of task u's header values
Mentions(v, u) == \E i \in DOMAIN v : v[i] = TaskChar(u)

InDispatch(t) == pc[t] = "dispatch" /\ IsRequestScope(scope[t])

Finished(t) == pc[t] = "done" /\ IsRequestScope(scope[t])

ScalarsUnset(S, t) ==
    /\ get_request_user_token(S, t) = None
    /\ get_request_server_url(S, t) = None
    /\ get_request_data_partition(S, t) = None

\* C1: while a request is being dispatched, none of the three getters called
\* in its context returns a value that came from another request's headers.
C1_ScalarIsolation ==
    \A t \in Tasks : \A u \in Tasks \ {t} :
        InDispatch(t) =>
            /\ ~Mentions(get_request_user_token(store, t), u)
            /\ ~Mentions(get_request_server_url(store, t), u)
            /\ ~Mentions(get_request_data_partition(store, t), u)

\* two requests with all three headers overlap and each sees its own values
C1_Witness ==
    /\ \A t \in {1, 2} :
          /\ InDispatch(t)
          /\ scope[t].wire = FullRequest(t)
          /\ get_request_user_token(store, t) = TokenOf(t)
          /\ get_request_data_partition(store, t) = PartitionOf(t)
          /\ Mentions(get_request_server_url(store, t), t)

\* C3: a request without override headers, all other requests having
\* completed before it started, sees during its dispatch the three fields as
\* None and no *_source metadata key, whatever those requests carried.
C3_NoLeakAcrossSequentialRequests ==
    \A t \in Tasks :
        (InDispatch(t) /\ scope[t].wire = <<>> /\ scope[t].solo)
        => /\ ScalarsUnset(store, t)
           /\ \A k \in SourceKeys : get_request_metadata(store, t, k, None) = None

\* C4: once __call__ has finished an http or websocket request, on any exit
\* path, the three getters return None in that request's context and every
\* metadata lookup returns the default it was given.
C4_CleanupOnEveryExit ==
    \A t \in Tasks :
        Finished(t) =>
            /\ ScalarsUnset(store, t)
            /\ \A k \in SourceKeys, d \in {None, HttpHeader} :
                   get_request_metadata(store, t, k, d) = d

\* a request with all three headers was cancelled and has been cleaned up
C4_Witness ==
    \E t \in Tasks :
        /\ Finished(t)
        /\ scope[t].wire = FullRequest(t)
        /\ app_outcome[t] = "CancelledError"
        /\ store.user_token[t] = None
        /\ store.metadata_ref[t] = "own"

\* C5: when the downstream app raised, __call__ ends with exactly that error,
\* and it does so after the cleanup: the four fields are cleared and cleanup
\* is the last step taken.
C5_ErrorPropagatesAfterCleanup ==
    \A t \in Tasks :
        (Finished(t) /\ app_outcome[t] \in Errors) =>
            /\ result[t] = app_outcome[t]
            /\ ScalarsUnset(store, t)
            /\ CurrentMetadata(store, t) = EmptyDict
            /\ store.events[t][Len(store.events[t])] = "cleanup"

C5_Witness ==
    \E t \in Tasks :
        /\ Finished(t)
        /\ scope[t].wire = FullRequest(t)
        /\ app_outcome[t] = "ValueError"
        /\ result[t] = "ValueError"

\* C6: within one http/websocket request the steps happen in the order
\* extraction, app call, app exit, cleanup: while the app runs, extraction is
\* complete and no cleanup has happened (the extracted values are in place).
RequestSteps == <<"extract", "app_call", "app_exit", "cleanup">>

C6_PhaseOrder ==
    \A t \in Tasks :
        /\ InDispatch(t) =>
              /\ store.events[t] = SubSeq(RequestSteps, 1, 2)
              /\ scope[t].wire = FullRequest(t) =>
                    /\ get_request_user_token(store, t) = TokenOf(t)
                    /\ get_request_data_partition(store, t) = PartitionOf(t)
                    /\ get_request_server_url(store, t) # None
        /\ Finished(t) => store.events[t] = RequestSteps

C6_Witness ==
    \E t \in Tasks : \E u \in Tasks \ {t} :
        /\ Finished(t) /\ store.events[t] = RequestSteps
        /\ InDispatch(u) /\ scope[u].wire = FullRequest(u)

-----------------------------------------------------------------------------
(* http_app.py: the application create_http_app builds; main.py: main *)

TokenMiddleware == "TokenExtractionMiddleware"
CorsMiddleware == "CORSMiddleware"

Range(f) == {f[i] : i \in DOMAIN f}

create_http_app_cors_first(enable_cors, cors_origins) ==
    [NoApp EXCEPT
       !.factory = "create_http_app",
       !.enable_cors = enable_cors,
       !.middleware = IF enable_cors THEN <<CorsMiddleware, TokenMiddleware>>
                      ELSE <<TokenMiddleware>>,
       !.routes = <<"/health", "/mcp">>,
       !.allow_origins = IF cors_origins = None THEN <<"*">> ELSE cors_origins]

create_http_app_cors_always(enable_cors, cors_origins) ==
    [NoApp EXCEPT
       !.factory = "create_http_app",
       !.enable_cors = enable_cors,
       !.middleware = <<TokenMiddleware, CorsMiddleware>>,
       !.routes = <<"/health", "/mcp">>,
       !.allow_origins = IF cors_origins = None THEN <<"*">> ELSE cors_origins]

\* routes: Route("/health", GET) and Mount("/mcp"); middleware: the list
\* given to Starlette, whose first entry is the outermost
create_http_app(enable_cors, cors_origins) ==
    [NoApp EXCEPT
       !.factory = "create_http_app",
       !.enable_cors = enable_cors,
       !.middleware = IF enable_cors THEN <<TokenMiddleware, CorsMiddleware>>
                      ELSE <<TokenMiddleware>>,
       !.routes = <<"/health", "/mcp">>,
       !.allow_origins = IF cors_origins = None THEN <<"*">> ELSE cors_origins]

run_with_uvicorn(host, port) ==
    [create_http_app(TRUE, None) EXCEPT
       !.runner = "uvicorn.run", !.transport = "streamable-http",
       !.host = host, !.port = port, !.started = 1]

\* the server main() has started when it returns, for args.transport (a
\* --transport choice, or the OSDU_MCP_TRANSPORT default, which argparse does
\* not hold against the choices).  setting: args.transport; started: the
\* number of servers run.  mcp.run("sse") serves FastMCP's own SSE
\* application, to which this package adds no middleware.
main(transport, host, port) ==
    IF transport = "stdio"
    THEN [NoApp EXCEPT !.setting = transport, !.started = 1,
                       !.runner = "mcp.run", !.transport = "stdio",
                       !.factory = "FastMCP"]
    ELSE IF transport = "streamable-http"
    THEN [run_with_uvicorn(host, port) EXCEPT !.setting = transport]
    ELSE IF transport = "sse"
    THEN [NoApp EXCEPT !.setting = transport, !.started = 1,
                       !.runner = "mcp.run", !.transport = "sse",
                       !.factory = "FastMCP", !.host = host, !.port = port,
                       !.routes = <<"/sse", "/messages">>]
    ELSE [NoApp EXCEPT !.setting = transport]

AllowMethods == {"GET", "POST", "DELETE", "OPTIONS"}

HealthBody ==
    "{\"status\":\"healthy\",\"service\":\"osdu-mcp-server\",\"transport\":\"http\"}"

Response(status, body, by, seen) ==
    [status |-> status, body |-> body, allow_origin |-> "absent", by |-> by,
     seen_token |-> seen]

health_check_requires_token(S, t) ==
    IF get_request_user_token(S, t) = None
    THEN Response(401, "Unauthorized", "health_check_endpoint",
                  get_request_user_token(S, t))
    ELSE Response(200, HealthBody, "health_check_endpoint",
                  get_request_user_token(S, t))

\* seen_token (the token the context holds while the handler runs) is
\* history; the handler does not read it
health_check_endpoint(S, t) ==
    Response(200, HealthBody, "health_check_endpoint", get_request_user_token(S, t))

\* the router of the application: the route that matches the path answers
Router(S, t, a, req) ==
    LET seen == get_request_user_token(S, t)
    IN  IF req.path = "/health" /\ "/health" \in Range(a.routes)
        THEN IF req.method = "GET"
             THEN health_check_endpoint(S, t)
             ELSE Response(405, "Method Not Allowed", "Route", seen)
        ELSE IF req.path \in {"/mcp", "/sse", "/messages"} /\ req.path \in Range(a.routes)
        THEN Response(200, "mcp", "mcp", seen)
        ELSE Response(404, "Not Found", "Router", seen)

IsPreflight(req) ==
    req.method = "OPTIONS" /\ req.origin # "absent" /\ req.acrm # "absent"

OriginAllowed(a, origin) ==
    "*" \in Range(a.allow_origins) \/ origin \in Range(a.allow_origins)

\* CORSMiddleware answers a preflight request itself
PreflightResponse(S, t, a, req) ==
    [status |-> IF OriginAllowed(a, req.origin) /\ req.acrm \in AllowMethods
                THEN 200 ELSE 400,
     body |-> IF OriginAllowed(a, req.origin) /\ req.acrm \in AllowMethods
              THEN "OK" ELSE "Disallowed CORS",
     allow_origin |-> IF "*" \in Range(a.allow_origins) THEN "*"
                      ELSE IF OriginAllowed(a, req.origin) THEN req.origin
                      ELSE "absent",
     by |-> CorsMiddleware,
     seen_token |-> get_request_user_token(S, t)]

\* CORSMiddleware adds its headers to the response to a request with Origin
SimpleResponse(a, req, response) ==
    IF req.origin = "absent" THEN response
    ELSE [response EXCEPT !.allow_origin =
             IF "*" \in Range(a.allow_origins) THEN "*"
             ELSE IF OriginAllowed(a, req.origin) THEN req.origin
             ELSE "absent"]

\* a request passes through the middleware list, outermost first, to the
\* router; the response returns through it
RECURSIVE Pipeline(_, _, _, _, _, _)
Pipeline(S, t, a, stack, sc, req) ==
    IF stack = <<>>
    THEN [store |-> Event(S, t, Router(S, t, a, req).by),
          response |-> Router(S, t, a, req)]
    ELSE IF Head(stack) = TokenMiddleware
    THEN LET inner == Pipeline(CallEnter(S, t, sc), t, a, Tail(stack), sc, req)
         IN  [store |-> CallExit(inner.store, t, sc), response |-> inner.response]
    ELSE IF IsPreflight(req)
    THEN [store |-> Event(S, t, CorsMiddleware),
          response |-> PreflightResponse(S, t, a, req)]
    ELSE LET inner == Pipeline(Event(S, t, CorsMiddleware), t, a, Tail(stack), sc, req)
         IN  [store |-> inner.store,
              response |-> SimpleResponse(a, req, inner.response)]

-----------------------------------------------------------------------------
(* Auth resolver: AuthHandler.get_access_token *)

StaticToken == <<"s", "t">>
ProviderToken == <<"m", "i">>

\* static configuration: a configured token or none, and a credential-chain
\* provider that is absent, works, or fails when asked for a token
Configs == [static_token : {None, StaticToken}, provider : {"none", "usable", "failing"}]

AuthToken(value, source) ==
    [kind |-> "token", value |-> value, source |-> source, error |-> "none"]

AuthError(error, source) ==
    [kind |-> "error", value |-> None, source |-> source, error |-> error]

\* precedence, evaluated on every call: the request token, then the
\* configured token, then the credential chain
get_access_token(S, t, cfg) ==
    LET request_token == get_request_user_token(S, t)
    IN  IF request_token # None THEN AuthToken(request_token, "request")
        ELSE IF cfg.static_token # None THEN AuthToken(cfg.static_token, "static_token")
        ELSE IF cfg.provider = "usable" THEN AuthToken(ProviderToken, "provider")
        ELSE IF cfg.provider = "failing" THEN AuthError("AuthenticationError", "provider")
        ELSE AuthError("AuthenticationUnavailable", "none")

-----------------------------------------------------------------------------
(* Direct use of the store and the resolver from a context *)

MetadataKeys == {"token_source", "key1"}

Direct(t) == pc[t] = "idle" /\ ops < MaxOps /\ ops' = ops + 1

MiddlewareUnchanged ==
    UNCHANGED <<pc, scope, app_outcome, result, requests, config, app, http>>

SetUserToken(t, token) ==
    /\ Direct(t)
    /\ store' = set_request_user_token(store, t, token)
    /\ last_op' = [last_op EXCEPT ![t] = IF token = None THEN "set_none" ELSE "set"]
    /\ MiddlewareUnchanged /\ UNCHANGED <<written, auth>>

ClearUserToken(t) ==
    /\ Direct(t)
    /\ store' = clear_request_user_token(store, t)
    /\ last_op' = [last_op EXCEPT ![t] =
                     IF VarGet(store.user_token[t]) # None
                     THEN "clear_after_set" ELSE "clear"]
    /\ MiddlewareUnchanged /\ UNCHANGED <<written, auth>>

SetServerUrl(t, url) ==
    /\ Direct(t)
    /\ store' = set_request_server_url(store, t, url)
    /\ MiddlewareUnchanged /\ UNCHANGED <<written, auth, last_op>>

ClearServerUrl(t) ==
    /\ Direct(t)
    /\ store' = clear_request_server_url(store, t)
    /\ MiddlewareUnchanged /\ UNCHANGED <<written, auth, last_op>>

SetDataPartition(t, partition) ==
    /\ Direct(t)
    /\ store' = set_request_data_partition(store, t, partition)
    /\ MiddlewareUnchanged /\ UNCHANGED <<written, auth, last_op>>

ClearDataPartition(t) ==
    /\ Direct(t)
    /\ store' = clear_request_data_partition(store, t)
    /\ MiddlewareUnchanged /\ UNCHANGED <<written, auth, last_op>>

SetMetadata(t, key, value) ==
    /\ Direct(t)
    /\ store' = set_request_metadata(store, t, key, value)
    /\ written' = [written EXCEPT ![t] = DictSet(@, key, value)]
    /\ MiddlewareUnchanged /\ UNCHANGED <<auth, last_op>>

ClearMetadata(t) ==
    /\ Direct(t)
    /\ store' = clear_request_metadata(store, t)
    /\ written' = [written EXCEPT ![t] = EmptyDict]
    /\ MiddlewareUnchanged /\ UNCHANGED <<auth, last_op>>

\* held: the value the context's user_token variable has when the call is
\* made; after: the last write of user_token before the call
GetAccessToken(t) ==
    /\ Direct(t)
    /\ auth' = [auth EXCEPT ![t] =
                  [kind |-> get_access_token(store, t, config).kind,
                   value |-> get_access_token(store, t, config).value,
                   source |-> get_access_token(store, t, config).source,
                   error |-> get_access_token(store, t, config).error,
                   held |-> VarGet(store.user_token[t]),
                   after |-> last_op[t]]]
    /\ last_op' = [last_op EXCEPT ![t] = "none"]
    /\ MiddlewareUnchanged /\ UNCHANGED <<store, written>>

NextStore ==
    \/ \E t \in Tasks : \E v \in {None, TokenOf(t)} : SetUserToken(t, v)
    \/ \E t \in Tasks : ClearUserToken(t)
    \/ \E t \in Tasks : \E v \in {None, UrlOf(t)} : SetServerUrl(t, v)
    \/ \E t \in Tasks : ClearServerUrl(t)
    \/ \E t \in Tasks : \E v \in {None, PartitionOf(t)} : SetDataPartition(t, v)
    \/ \E t \in Tasks : ClearDataPartition(t)
    \/ \E t \in Tasks, k \in MetadataKeys : \E v \in {HttpHeader, TokenOf(t)} :
          SetMetadata(t, k, v)
    \/ \E t \in Tasks : ClearMetadata(t)

SpecStore == Init /\ [][NextStore]_vars

InitAuth == InitCommon /\ config \in Configs /\ app = NoApp

NextAuth ==
    \/ \E t \in Tasks : \E v \in {None, <<>>, TokenOf(t)} : SetUserToken(t, v)
    \/ \E t \in Tasks : ClearUserToken(t)
    \/ \E t \in Tasks : SetServerUrl(t, UrlOf(t))
    \/ \E t \in Tasks : GetAccessToken(t)

SpecAuth == InitAuth /\ [][NextAuth]_vars

-----------------------------------------------------------------------------
(* One request at a time, with the headers a client may send *)

HeaderValues ==
    { <<"t", "k", "1">>,
      <<"B", "e", "a", "r", "e", "r", " ", "t", "k", "1">>,
      <<"b", "e", "a", "r", "e", "r", " ", "t", "k", "1">>,
      <<"B", "E", "A", "R", "E", "R", " ", "t", "k", "1">>,
      <<"B", "e", "A", "r", "E", "r", " ", "t", "k", "1">>,
      <<"B", "e", "a", "r", "e", "r", " ">>,
      <<"B", "e", "a", "r", "e", "r">>,
      <<"B", "e", "a", "r", "e", "r", "t", "k", "1">>,
      <<"B", "e", "a", "r", "e", "r", " ", "B", "e", "a", "r", "e", "r", " ", "t", "k", "1">>,
      <<" ", "B", "e", "a", "r", "e", "r", " ", "t", "k", "1">>,
      <<"B", "e", "a", "r", "e", "r", " ", " ", "t", "k", "1", " ">>,
      <<>>,
      <<"h", ":", "/", "/", "1">>,
      <<"h", ":", "/", "/", "1", "/">>,
      <<"h", ":", "/", "/", "1", "/", "/">>,
      <<"/">>,
      <<"/", "/">>,
      <<"/", "h", "/", "1">>,
      <<"p", "1">>,
      <<"p", "1", "/">>,
      <<" ", "p", "1", " ">> }

AcceptedNames ==
    {TokenHeaderNames[i] : i \in DOMAIN TokenHeaderNames}
    \cup {ServerUrlHeaderNames[i] : i \in DOMAIN ServerUrlHeaderNames}
    \cup {DataPartitionHeaderNames[i] : i \in DOMAIN DataPartitionHeaderNames}

SingleHeaderRequests ==
    { << <<WithCase(n, c), v>> >> : n \in AcceptedNames, c \in CasePatterns, v \in HeaderValues }

\* requests that carry one category under two or three of its names, each
\* name once, with pairwise different values, in every order
VariantValues == {<<>>, <<"v", "1">>, <<"v", "2">>, <<"v", "3">>}

Injections(D, R) == {f \in [D -> R] : \A x \in D, y \in D : f[x] = f[y] => x = y}

MultiHeaderRequests ==
    UNION { { [i \in 1..n |-> <<names[f[i]], g[i]>>] :
                f \in Injections(1..n, DOMAIN names),
                g \in Injections(1..n, VariantValues) } :
            names \in {TokenHeaderNames, ServerUrlHeaderNames, DataPartitionHeaderNames},
            n \in 2..3 }

HeaderRequests == SingleHeaderRequests \cup MultiHeaderRequests \cup {<<>>}

\* websocket connections: no header, the three headers, an empty token
WebsocketRequests ==
    {<<>>, BearerRequest(1), << <<USER_TOKEN_HEADER, <<>> >> >>}

NextHeaders ==
    \/ \E wire \in HeaderRequests :
          requests < MaxHeaderRequests /\ Call(1, "http", wire)
    \/ \E wire \in WebsocketRequests :
          requests < MaxHeaderRequests /\ Call(1, "websocket", wire)
    \/ AppReturns(1)
    \/ \E fresh \in BOOLEAN : NextRequest(1, fresh)

SpecHeaders == Init /\ [][NextHeaders]_vars

-----------------------------------------------------------------------------
(* Properties of the store and the resolver under direct use *)

\* C2: a metadata key that one context has set, and the other has not, is
\* not returned by get_request_metadata in the other context.
C2_MetadataIsolation ==
    \A t \in Tasks : \A u \in Tasks \ {t} : \A k \in MetadataKeys :
        (k \in DOMAIN written[u] /\ k \notin DOMAIN written[t])
        => get_request_metadata(store, t, k, None) = None

Called(t) == auth[t].kind # "none"

\* C7: a get_access_token() call made while the context holds a request
\* token returns exactly that token, taken from the request context: neither
\* the configured token nor the credential chain is used.
C7_RequestTokenTakesPriority ==
    \A t \in Tasks :
        (Called(t) /\ auth[t].held # None) =>
            /\ auth[t].kind = "token"
            /\ auth[t].value = auth[t].held
            /\ auth[t].source = "request"

C7_Witness ==
    \E t \in Tasks :
        /\ Called(t)
        /\ auth[t].held = TokenOf(t)
        /\ auth[t].value = TokenOf(t)
        /\ config.provider = "usable"

\* C8: with a token configured, every get_access_token() call returns the
\* request token held at that moment, or the configured token when none is
\* held; the call that follows the clearing of a request token returns the
\* configured token.
C8_PrecedenceEvaluatedFresh ==
    \A t \in Tasks :
        (Called(t) /\ config.static_token # None) =>
            /\ auth[t].kind = "token"
            /\ auth[t].value =
                  IF auth[t].held # None THEN auth[t].held ELSE config.static_token
            /\ auth[t].after \in {"clear_after_set", "clear", "set_none"} =>
                  /\ auth[t].value = config.static_token
                  /\ auth[t].source = "static_token"

C8_Witness ==
    \E t \in Tasks :
        /\ Called(t)
        /\ auth[t].after = "clear_after_set"
        /\ auth[t].value = StaticToken
        /\ store.user_token[t] = None

\* C9: a get_access_token() call made while the context holds no request
\* token, with no token configured and no credential chain, fails with
\* AuthenticationUnavailable and returns no credential.
C9_AuthenticationUnavailable ==
    \A t \in Tasks :
        ( /\ Called(t)
          /\ auth[t].held = None
          /\ config.static_token = None
          /\ config.provider = "none" )
        => /\ auth[t].kind = "error"
           /\ auth[t].error = "AuthenticationUnavailable"
           /\ auth[t].value = None

C9_Witness ==
    \E t \in Tasks :
        /\ Called(t)
        /\ auth[t].error = "AuthenticationUnavailable"
        /\ store.server_url[t] = UrlOf(t)
        /\ config = NoConfig

-----------------------------------------------------------------------------
(* Properties of header extraction *)

CategoryNames == {TokenHeaderNames, ServerUrlHeaderNames, DataPartitionHeaderNames}

\* the client spelled the header as one of the names, in some letter case
SpelledAs(wire_name, names) ==
    \E i \in DOMAIN names, c \in CasePatterns : wire_name = WithCase(names[i], c)

\* the context of task t in the store that results when a request with only
\* the header (name, value) is served in a new context
AfterOnly(t, name, value) ==
    CallEnter(NewContextStore(store, t), t, MakeScope("http", << <<name, value>> >>, TRUE))

SameFields(S1, S2, t) ==
    /\ get_request_user_token(S1, t) = get_request_user_token(S2, t)
    /\ get_request_server_url(S1, t) = get_request_server_url(S2, t)
    /\ get_request_data_partition(S1, t) = get_request_data_partition(S2, t)

\* C10: a request with a single override header, spelled as any of the three
\* names of its category in any letter case, has during dispatch the same
\* token, server URL and data partition in its context as a request with
\* only the canonical header of that category and the same content.
C10_NameVariantsEquivalent ==
    \A t \in Tasks : \A names \in CategoryNames :
        ( /\ InDispatch(t)
          /\ Len(scope[t].wire) = 1
          /\ SpelledAs(scope[t].wire[1][1], names) )
        => SameFields(store, AfterOnly(t, names[1], scope[t].wire[1][2]), t)

\* the x- alternative of the token header, in upper case, was served
C10_Witness ==
    /\ InDispatch(1)
    /\ scope[1].wire =
          << <<WithCase(ALT_TOKEN_HEADERS[2], "upper"),
               <<"B", "e", "a", "r", "e", "r", " ", "t", "k", "1">> >> >>
    /\ scope[1].wire[1][1] # ALT_TOKEN_HEADERS[2]
    /\ get_request_user_token(store, 1) = <<"t", "k", "1">>

\* no two headers of the request have the same name, letter case aside
DistinctNames(wire) ==
    \A i \in DOMAIN wire, j \in DOMAIN wire :
        Lower(wire[i][1]) = Lower(wire[j][1]) => i = j

\* the header name is one of the names, letter case aside
NamedIn(wire_name, names) == \E i \in DOMAIN names : Lower(wire_name) = names[i]

Present(wire, name) == \E j \in DOMAIN wire : Lower(wire[j][1]) = name

\* the position, in the configured order, of the first name the request has
FirstPresent(wire, names) ==
    CHOOSE i \in DOMAIN names :
        /\ Present(wire, names[i])
        /\ \A k \in DOMAIN names : Present(wire, names[k]) => i <= k

ValueOf(wire, name) ==
    wire[CHOOSE j \in DOMAIN wire : Lower(wire[j][1]) = name][2]

\* C11: a request that carries one category under several of its names, with
\* different values, has during dispatch the context that a request with only
\* the first present name of the configured order (canonical, hyphen, x-)
\* and that name's value would have, wherever the headers stand in the
\* request; an empty value under that name leaves the field unset.
C11_ConfiguredOrderDecides ==
    \A t \in Tasks : \A names \in CategoryNames :
        ( /\ InDispatch(t)
          /\ Len(scope[t].wire) >= 2
          /\ DistinctNames(scope[t].wire)
          /\ \A j \in DOMAIN scope[t].wire : NamedIn(scope[t].wire[j][1], names) )
        => LET first == names[FirstPresent(scope[t].wire, names)]
           IN  SameFields(store,
                          AfterOnly(t, first, ValueOf(scope[t].wire, first)), t)

\* the x- alternative came first in the request with a value, the canonical
\* name last with an empty one, and no token was stored
C11_Witness ==
    /\ InDispatch(1)
    /\ scope[1].wire = << <<ALT_TOKEN_HEADERS[2], <<"v", "1">> >>,
                          <<USER_TOKEN_HEADER, <<>> >> >>
    /\ get_request_user_token(store, 1) = None

\* the request has a header of the category, each header name once
Carries(wire, names) ==
    /\ DistinctNames(wire)
    /\ \E i \in DOMAIN names : Present(wire, names[i])

\* the value of the header that decides the category
Received(wire, names) == ValueOf(wire, names[FirstPresent(wire, names)])

\* v begins with the seven characters "Bearer " in some letter case
HasBearerPrefix(v) ==
    /\ Len(v) >= 7
    /\ v[1] \in {"B", "b"} /\ v[2] \in {"E", "e"} /\ v[3] \in {"A", "a"}
    /\ v[4] \in {"R", "r"} /\ v[5] \in {"E", "e"} /\ v[6] \in {"R", "r"}
    /\ v[7] = " "

WithoutBearerPrefix(v) ==
    IF HasBearerPrefix(v) THEN [i \in 1..(Len(v) - 7) |-> v[i + 7]] ELSE v

\* C12 as stated: for every token header value v, the token in the context
\* during dispatch is v without its first seven characters when v begins with
\* "Bearer " in any letter case, and v itself otherwise.
C12_EveryTokenValueStored ==
    \A t \in Tasks :
        (InDispatch(t) /\ Carries(scope[t].wire, TokenHeaderNames))
        => get_request_user_token(store, t)
              = WithoutBearerPrefix(Received(scope[t].wire, TokenHeaderNames))

\* C12: for every non-empty token header value v, the token in the context
\* during dispatch is v without its first seven characters when v begins with
\* "Bearer " in any letter case, and v itself otherwise: one prefix is
\* removed and nothing is trimmed.  An empty value stores no token.
C12_BearerPrefixStripped ==
    \A t \in Tasks :
        (InDispatch(t) /\ Carries(scope[t].wire, TokenHeaderNames))
        => LET v == Received(scope[t].wire, TokenHeaderNames)
           IN  get_request_user_token(store, t)
                  = IF v = <<>> THEN None ELSE WithoutBearerPrefix(v)

\* "Bearer Bearer tk1" was received and "Bearer tk1" is the token
C12_Witness ==
    /\ InDispatch(1)
    /\ Carries(scope[1].wire, TokenHeaderNames)
    /\ Received(scope[1].wire, TokenHeaderNames)
          = <<"B", "e", "a", "r", "e", "r", " ", "B", "e", "a", "r", "e", "r", " ", "t", "k", "1">>
    /\ get_request_user_token(store, 1)
          = <<"B", "e", "a", "r", "e", "r", " ", "t", "k", "1">>

\* s is v without its trailing slashes
IsWithoutTrailingSlashes(s, v) ==
    /\ Len(s) <= Len(v)
    /\ \A i \in DOMAIN s : s[i] = v[i]
    /\ \A i \in DOMAIN v : i > Len(s) => v[i] = "/"
    /\ s = <<>> \/ s[Len(s)] # "/"

\* C13 as stated: for every server-URL header value v, the server URL in the
\* context during dispatch is v without its trailing slashes.
C13_EveryUrlValueStored ==
    \A t \in Tasks :
        (InDispatch(t) /\ Carries(scope[t].wire, ServerUrlHeaderNames))
        => /\ get_request_server_url(store, t) # None
           /\ IsWithoutTrailingSlashes(get_request_server_url(store, t),
                                       Received(scope[t].wire, ServerUrlHeaderNames))

\* C13: for every non-empty server-URL header value v, the server URL in the
\* context during dispatch is v with all its trailing slashes removed and
\* nothing else changed, so it never ends with a slash.  An empty value
\* stores no server URL.
C13_TrailingSlashesRemoved ==
    \A t \in Tasks :
        (InDispatch(t) /\ Carries(scope[t].wire, ServerUrlHeaderNames))
        => LET v == Received(scope[t].wire, ServerUrlHeaderNames)
           IN  IF v = <<>>
               THEN get_request_server_url(store, t) = None
               ELSE /\ get_request_server_url(store, t) # None
                    /\ IsWithoutTrailingSlashes(get_request_server_url(store, t), v)

\* "h://1//" was received and "h://1" is the server URL
C13_Witness ==
    /\ InDispatch(1)
    /\ Carries(scope[1].wire, ServerUrlHeaderNames)
    /\ Received(scope[1].wire, ServerUrlHeaderNames) = <<"h", ":", "/", "/", "1", "/", "/">>
    /\ get_request_server_url(store, 1) = <<"h", ":", "/", "/", "1">>

\* C14 as stated: whenever the request has a data-partition header, the data
\* partition in the context during dispatch is the header's value as
\* received and the metadata key data_partition_source is "http_header".
C14_EveryPartitionValueStored ==
    \A t \in Tasks :
        (InDispatch(t) /\ Carries(scope[t].wire, DataPartitionHeaderNames))
        => /\ get_request_data_partition(store, t)
                 = Received(scope[t].wire, DataPartitionHeaderNames)
           /\ get_request_metadata(store, t, "data_partition_source", None) = HttpHeader

\* C14: whenever the request has a data-partition header with a non-empty
\* value, the data partition in the context during dispatch is that value
\* as received and the metadata key data_partition_source is "http_header".
\* An empty value stores no data partition.
C14_PartitionStoredVerbatim ==
    \A t \in Tasks :
        (InDispatch(t) /\ Carries(scope[t].wire, DataPartitionHeaderNames))
        => LET v == Received(scope[t].wire, DataPartitionHeaderNames)
           IN  IF v = <<>>
               THEN get_request_data_partition(store, t) = None
               ELSE /\ get_request_data_partition(store, t) = v
                    /\ get_request_metadata(store, t, "data_partition_source", None)
                          = HttpHeader

\* " p1 " was received under the x- name and is the data partition
C14_Witness ==
    /\ InDispatch(1)
    /\ scope[1].wire = << <<WithCase(ALT_DATA_PARTITION_HEADERS[2], "title"),
                            <<" ", "p", "1", " ">> >> >>
    /\ get_request_data_partition(store, 1) = <<" ", "p", "1", " ">>
    /\ get_request_metadata(store, 1, "data_partition_source", None) = HttpHeader

\* how many times the step e occurs in the history of task t
Count(S, t, e) == Cardinality({i \in DOMAIN S.events[t] : S.events[t][i] = e})

\* C15: every http or websocket request, whatever headers it has, has its
\* downstream app invoked exactly once, with the scope the middleware was
\* given; during dispatch a category none of whose names is among the
\* request's headers is unset.
C15_AlwaysForwarded ==
    \A t \in Tasks :
        (InDispatch(t) \/ Finished(t)) =>
            /\ Count(store, t, "app_call") = 1
            /\ store.app_args[t] = <<scope[t].type, scope[t].wire>>
            /\ InDispatch(t) =>
                  /\ (\A i \in DOMAIN TokenHeaderNames :
                         ~Present(scope[t].wire, TokenHeaderNames[i]))
                     => get_request_user_token(store, t) = None
                  /\ (\A i \in DOMAIN ServerUrlHeaderNames :
                         ~Present(scope[t].wire, ServerUrlHeaderNames[i]))
                     => get_request_server_url(store, t) = None
                  /\ (\A i \in DOMAIN DataPartitionHeaderNames :
                         ~Present(scope[t].wire, DataPartitionHeaderNames[i]))
                     => get_request_data_partition(store, t) = None

\* a websocket connection whose token header is empty reached the app, and
\* so did, in the same context before it, a request
C15_Witness ==
    /\ InDispatch(1)
    /\ scope[1].type = "websocket"
    /\ scope[1].wire = << <<USER_TOKEN_HEADER, <<>> >> >>
    /\ Count(store, 1, "app_call") = 1
    /\ get_request_user_token(store, 1) = None
    /\ get_request_server_url(store, 1) = None
    /\ requests = 2

-----------------------------------------------------------------------------
(* The server's context, which holds values and is given lifespan scopes *)

NextLifespan ==
    \/ SetUserToken(1, TokenOf(1))
    \/ SetServerUrl(1, UrlOf(1))
    \/ SetDataPartition(1, PartitionOf(1))
    \/ SetMetadata(1, "key1", HttpHeader)
    \/ Call(1, "lifespan", <<>>)
    \/ AppReturns(1)
    \/ \E e \in Errors : AppRaises(1, e)
    \/ NextRequest(1, FALSE)

SpecLifespan == Init /\ [][NextLifespan]_vars

\* every ContextVar of every context, and the shared default dict
ContextVars(S) ==
    <<S.user_token, S.server_url, S.data_partition, S.metadata_ref,
      S.own_metadata, S.default_metadata>>

Bypasses(sc) == sc.type \notin {"http", "websocket"}

\* C16: when __call__ is given a scope that is neither http nor websocket,
\* the downstream app is invoked exactly once, nothing is extracted and no
\* cleanup runs, and no step of the call changes any ContextVar: what the
\* context held before the call it holds after it.
C16_OtherScopesPassThrough ==
    /\ [](\A t \in Tasks :
            (pc[t] \in {"dispatch", "done"} /\ Bypasses(scope[t])) =>
                /\ Count(store, t, "app_call") = 1
                /\ Count(store, t, "extract") = 0
                /\ Count(store, t, "cleanup") = 0)
    /\ [][\A t \in Tasks :
            ( \/ pc[t] = "idle" /\ pc'[t] = "dispatch" /\ Bypasses(scope'[t])
              \/ pc[t] = "dispatch" /\ pc'[t] = "done" /\ Bypasses(scope[t]) )
            => ContextVars(store') = ContextVars(store)]_vars

\* a lifespan call has ended in a context that held a token, a data
\* partition and a metadata key before it, and holds them still
C16_Witness ==
    /\ pc[1] = "done"
    /\ scope[1].type = "lifespan"
    /\ store.events[1] = <<"app_call", "app_exit">>
    /\ get_request_user_token(store, 1) = TokenOf(1)
    /\ get_request_data_partition(store, 1) = PartitionOf(1)
    /\ get_request_metadata(store, 1, "key1", None) = HttpHeader

-----------------------------------------------------------------------------
(* The server that was started, and the HTTP requests it serves *)

Hosts == {"127.0.0.1", "0.0.0.0"}
Ports == {8000}

\* --transport choices, and an OSDU_MCP_TRANSPORT default outside them
TransportSettings == {"stdio", "streamable-http", "sse", "http"}

CorsOrigins == {None, <<"http://localhost:3000">>}

\* acrm: the Access-Control-Request-Method header
HttpRequests ==
    [method : {"GET", "OPTIONS", "POST"},
     path : {"/health", "/mcp", "/sse", "/missing"},
     origin : {"absent", "http://localhost:3000", "https://other.example"},
     acrm : {"absent", "GET", "PUT"}]

AppWires(t) == {<<>>, FullRequest(t), << <<USER_TOKEN_HEADER, <<>> >> >>}

InitApp == InitCommon /\ config = NoConfig /\ app = NoApp

\* the process starts: main() runs with its arguments, or an ASGI server
\* (or a test) takes the application create_http_app builds
Start(server) ==
    /\ app = NoApp
    /\ app' = server
    /\ UNCHANGED <<store, pc, scope, app_outcome, result, requests, written,
                   config, auth, last_op, ops, http>>

Main(transport, host, port) == Start(main(transport, host, port))

CreateHttpApp(enable_cors, cors_origins) ==
    Start(create_http_app(enable_cors, cors_origins))

\* the server receives a request and the application answers it
HttpRequest(t, req, wire) ==
    /\ pc[t] = "idle"
    /\ requests < MaxHeaderRequests
    /\ app.routes # <<>>
    /\ requests' = requests + 1
    /\ scope' = [scope EXCEPT ![t] = MakeScope("http", wire, TRUE)]
    /\ LET out == Pipeline(store, t, app, app.middleware, scope'[t], req)
       IN  /\ store' = out.store
           /\ http' = [http EXCEPT ![t] =
                         [method |-> req.method, path |-> req.path,
                          origin |-> req.origin, acrm |-> req.acrm,
                          status |-> out.response.status,
                          body |-> out.response.body,
                          allow_origin |-> out.response.allow_origin,
                          by |-> out.response.by,
                          seen_token |-> out.response.seen_token]]
    /\ pc' = [pc EXCEPT ![t] = "done"]
    /\ app_outcome' = [app_outcome EXCEPT ![t] = "return"]
    /\ result' = [result EXCEPT ![t] = "returned"]
    /\ UNCHANGED <<written, config, auth, last_op, ops, app>>

NextApp ==
    \/ \E tr \in TransportSettings, h \in Hosts, p \in Ports : Main(tr, h, p)
    \/ \E c \in BOOLEAN, o \in CorsOrigins : CreateHttpApp(c, o)
    \/ \E req \in HttpRequests : \E wire \in AppWires(1) : HttpRequest(1, req, wire)
    \/ \E fresh \in BOOLEAN : NextRequest(1, fresh)

SpecApp == InitApp /\ [][NextApp]_vars

Served(t) == pc[t] = "done" /\ http[t].method # "none"

MiddlewareSteps == {"extract", "app_call", "app_exit", "cleanup"}

\* C17: in an application built by create_http_app, every request that was
\* answered, by a route, by the mounted MCP application, by the router or by
\* the CORS middleware, went through extraction and the call of the
\* downstream app before the first other handler ran, and through cleanup
\* after the last one had finished.
C17_ExtractionOutermost ==
    \A t \in Tasks :
        (Served(t) /\ app.factory = "create_http_app") =>
            LET ev == store.events[t]
                n == Len(ev)
            IN  /\ n >= 5
                /\ ev[1] = "extract" /\ ev[2] = "app_call"
                /\ ev[n - 1] = "app_exit" /\ ev[n] = "cleanup"
                /\ \A i \in 3..(n - 2) : ev[i] \notin MiddlewareSteps
                /\ \E i \in 3..(n - 2) : ev[i] = http[t].by
                /\ ScalarsUnset(store, t)

\* a preflight request was answered by the CORS middleware, between
\* extraction and cleanup, while the context held the request's token
C17_Witness ==
    /\ Served(1)
    /\ http[1].by = CorsMiddleware
    /\ http[1].seen_token = TokenOf(1)
    /\ store.events[1] = <<"extract", "app_call", CorsMiddleware, "app_exit", "cleanup">>

\* C18: under every HTTP transport main() can start, streamable-http and
\* sse, a request to the MCP endpoint that carries a token header is served
\* through the extraction, and the MCP application runs in a context that
\* holds the token.
C18_EveryHttpTransportExtracts ==
    \A t \in Tasks :
        ( /\ Served(t)
          /\ app.runner # "none"
          /\ app.transport \in {"streamable-http", "sse"}
          /\ http[t].by = "mcp"
          /\ scope[t].wire = FullRequest(t) )
        => /\ Count(store, t, "extract") = 1
           /\ http[t].seen_token = TokenOf(t)

\* C19: in an application built by create_http_app, every GET /health is
\* answered with status 200 and the healthy body, whatever override headers
\* the request has and whatever the context or the shared metadata holds.
C19_HealthAlwaysHealthy ==
    \A t \in Tasks :
        ( /\ Served(t)
          /\ app.factory = "create_http_app"
          /\ http[t].method = "GET"
          /\ http[t].path = "/health" )
        => /\ http[t].status = 200
           /\ http[t].body = HealthBody

\* GET /health with an empty token header was answered healthy by a handler
\* whose context held no token
C19_Witness ==
    /\ Served(1)
    /\ http[1].method = "GET" /\ http[1].path = "/health"
    /\ scope[1].wire = << <<USER_TOKEN_HEADER, <<>> >> >>
    /\ http[1].seen_token = None
    /\ http[1].by = "health_check_endpoint"
    /\ http[1].status = 200

PreflightHealth(t) ==
    /\ Served(t)
    /\ app.factory = "create_http_app"
    /\ IsPreflight(http[t])
    /\ http[t].path = "/health"

\* C20 as stated: the response to a preflight OPTIONS /health has an
\* access-control-allow-origin header if and only if the application was
\* created with enable_cors=True.
C20_AllowOriginIffCorsEnabled ==
    \A t \in Tasks :
        PreflightHealth(t) => (http[t].allow_origin # "absent" <=> app.enable_cors)

\* C20: the response to a preflight OPTIONS /health has an
\* access-control-allow-origin header if and only if the application was
\* created with enable_cors=True and its cors_origins allow the request's
\* Origin, which the default ["*"] does for every Origin.
C20_AllowOriginIffCorsAllows ==
    \A t \in Tasks :
        PreflightHealth(t) =>
            ( http[t].allow_origin # "absent"
              <=> ( /\ app.enable_cors
                    /\ \/ "*" \in Range(app.allow_origins)
                       \/ http[t].origin \in Range(app.allow_origins) ) )

\* CORS is enabled for one origin, and the preflight of another origin has
\* no access-control-allow-origin header
C20_Witness ==
    /\ PreflightHealth(1)
    /\ app.enable_cors
    /\ app.allow_origins = <<"http://localhost:3000">>
    /\ http[1].origin = "https://other.example"
    /\ http[1].allow_origin = "absent"

-----------------------------------------------------------------------------
(* Properties of the scalar fields under direct use *)

\* sets and clears of the three scalar fields, with two values for each
NextScalars ==
    \/ \E t \in Tasks : \E v \in {TokenOf(t), OtherOf(t)} : SetUserToken(t, v)
    \/ \E t \in Tasks : ClearUserToken(t)
    \/ \E t \in Tasks : \E v \in {UrlOf(t), OtherOf(t)} : SetServerUrl(t, v)
    \/ \E t \in Tasks : ClearServerUrl(t)
    \/ \E t \in Tasks : \E v \in {PartitionOf(t), OtherOf(t)} : SetDataPartition(t, v)
    \/ \E t \in Tasks : ClearDataPartition(t)

SpecScalars == Init /\ [][NextScalars]_vars

StoreValues(t) == {None, TokenOf(t), UrlOf(t), PartitionOf(t), OtherOf(t)}

\* C21: in every context the three getters return None at the start; a set
\* makes the getter of its field return its argument, whatever the field
\* held; a clear makes it return None; and no other step, of this or of
\* another context, changes what a getter returns.
C21_LastSetOrClearDecides ==
    /\ \A t \in Tasks : ScalarsUnset(store, t)
    /\ [][\A t \in Tasks :
            /\ \A v \in StoreValues(t) :
                  /\ SetUserToken(t, v) => get_request_user_token(store', t) = v
                  /\ SetServerUrl(t, v) => get_request_server_url(store', t) = v
                  /\ SetDataPartition(t, v)
                        => get_request_data_partition(store', t) = v
            /\ ClearUserToken(t) => get_request_user_token(store', t) = None
            /\ ClearServerUrl(t) => get_request_server_url(store', t) = None
            /\ ClearDataPartition(t) => get_request_data_partition(store', t) = None
            /\ ( ~ClearUserToken(t) /\ \A v \in StoreValues(t) : ~SetUserToken(t, v) )
                  => get_request_user_token(store', t) = get_request_user_token(store, t)
            /\ ( ~ClearServerUrl(t) /\ \A v \in StoreValues(t) : ~SetServerUrl(t, v) )
                  => get_request_server_url(store', t) = get_request_server_url(store, t)
            /\ ( ~ClearDataPartition(t)
                 /\ \A v \in StoreValues(t) : ~SetDataPartition(t, v) )
                  => get_request_data_partition(store', t)
                        = get_request_data_partition(store, t)]_vars

\* context 1 cleared its token after setting it and holds a server URL;
\* context 2 holds its own token
C21_Witness ==
    /\ last_op[1] = "clear_after_set"
    /\ get_request_user_token(store, 1) = None
    /\ get_request_server_url(store, 1) = OtherOf(1)
    /\ get_request_user_token(store, 2) = TokenOf(2)

\* what the getters return in every context
Observed(S) ==
    [t \in Tasks |->
        <<get_request_user_token(S, t), get_request_server_url(S, t),
          get_request_data_partition(S, t), CurrentMetadata(S, t)>>]

\* C22: from every state the store reaches, setting a scalar field to None
\* and clearing it give the same store, hence the same observable state, in
\* which the getter returns None; clearing twice gives the store that
\* clearing once gives; and clearing a field whose getter returns None
\* changes nothing a getter returns in any context.
C22_SetNoneIsClear ==
    \A t \in Tasks :
        /\ set_request_user_token(store, t, None) = clear_request_user_token(store, t)
        /\ set_request_server_url(store, t, None) = clear_request_server_url(store, t)
        /\ set_request_data_partition(store, t, None)
              = clear_request_data_partition(store, t)
        /\ get_request_user_token(clear_request_user_token(store, t), t) = None
        /\ get_request_server_url(clear_request_server_url(store, t), t) = None
        /\ get_request_data_partition(clear_request_data_partition(store, t), t) = None
        /\ clear_request_user_token(clear_request_user_token(store, t), t)
              = clear_request_user_token(store, t)
        /\ clear_request_server_url(clear_request_server_url(store, t), t)
              = clear_request_server_url(store, t)
        /\ clear_request_data_partition(clear_request_data_partition(store, t), t)
              = clear_request_data_partition(store, t)
        /\ get_request_user_token(store, t) = None
              => Observed(clear_request_user_token(store, t)) = Observed(store)
        /\ get_request_server_url(store, t) = None
              => Observed(clear_request_server_url(store, t)) = Observed(store)
        /\ get_request_data_partition(store, t) = None
              => Observed(clear_request_data_partition(store, t)) = Observed(store)

\* a token that was set has been set to None, with the other fields of the
\* context still set
C22_Witness ==
    /\ last_op[1] = "set_none"
    /\ store.user_token[1] = None
    /\ get_request_server_url(store, 1) = UrlOf(1)
    /\ get_request_data_partition(store, 1) = PartitionOf(1)

-----------------------------------------------------------------------------
(* Properties of the metadata and of the fields taken together *)

MetadataDefaults == {None, <<"d">>}

\* C23: in every context, get_request_metadata(k, d) returns what this
\* context last set for k since its last clear_request_metadata(), and d for
\* a key it has not set since then.
C23_MetadataIsPerContextMapping ==
    \A t \in Tasks : \A k \in MetadataKeys : \A d \in MetadataDefaults :
        get_request_metadata(store, t, k, d) = DictGet(written[t], k, d)

\* C24: while a request is being dispatched, each *_source metadata key is
\* "http_header" in its context exactly when the getter of its field does
\* not return None.
C24_ProvenanceMatchesFields ==
    \A t \in Tasks :
        InDispatch(t) =>
            /\ get_request_metadata(store, t, "token_source", None) = HttpHeader
                  <=> get_request_user_token(store, t) # None
            /\ get_request_metadata(store, t, "server_url_source", None) = HttpHeader
                  <=> get_request_server_url(store, t) # None
            /\ get_request_metadata(store, t, "data_partition_source", None) = HttpHeader
                  <=> get_request_data_partition(store, t) # None

\* C25: while a request is being dispatched, none of the three getters
\* returns the empty string in its context.
C25_NeverStoresEmptyString ==
    \A t \in Tasks :
        InDispatch(t) =>
            /\ get_request_user_token(store, t) # <<>>
            /\ get_request_server_url(store, t) # <<>>
            /\ get_request_data_partition(store, t) # <<>>

-----------------------------------------------------------------------------
(* One context that uses the store directly and serves requests that carry
   one category *)

FrameRequests ==
    { <<>>,
      << <<USER_TOKEN_HEADER, BearerTokenOf(1)>> >>,
      << <<SERVER_URL_HEADER, UrlOf(1)>> >>,
      << <<DATA_PARTITION_HEADER, PartitionOf(1)>> >> }

NextFrame ==
    \/ SetUserToken(1, OtherOf(1))
    \/ ClearUserToken(1)
    \/ SetServerUrl(1, OtherOf(1))
    \/ ClearServerUrl(1)
    \/ SetDataPartition(1, OtherOf(1))
    \/ ClearDataPartition(1)
    \/ SetMetadata(1, "key1", OtherOf(1))
    \/ ClearMetadata(1)
    \/ \E wire \in FrameRequests :
          requests < MaxHeaderRequests /\ Call(1, "http", wire)
    \/ AppReturns(1)
    \/ \E fresh \in BOOLEAN : NextRequest(1, fresh)

SpecFrame == Init /\ [][NextFrame]_vars

AllValues(t) == StoreValues(t) \cup {HttpHeader}

TokenSame(t) == get_request_user_token(store', t) = get_request_user_token(store, t)
ServerUrlSame(t) == get_request_server_url(store', t) = get_request_server_url(store, t)
DataPartitionSame(t) ==
    get_request_data_partition(store', t) = get_request_data_partition(store, t)
MetadataSame(t) == CurrentMetadata(store', t) = CurrentMetadata(store, t)

\* every metadata key but `key` reads as before
MetadataSameBut(t, key) ==
    \A k \in (SourceKeys \cup MetadataKeys) \ {key} :
        get_request_metadata(store', t, k, None) = get_request_metadata(store, t, k, None)

\* the step is the extraction of a request whose only header has a name of
\* the category
Extracts(t, names) ==
    /\ pc[t] = "idle" /\ pc'[t] = "dispatch"
    /\ Len(scope'[t].wire) = 1
    /\ NamedIn(scope'[t].wire[1][1], names)

\* C26: a set or clear of one of user_token, server_url, data_partition and
\* metadata leaves what the context reads of the other three as it was, and
\* the extraction of a request with a header of one category leaves the
\* other two fields and every metadata key but the category's own *_source
\* key as they were.
C26_FieldsIndependent ==
    [][\A t \in Tasks :
         /\ (ClearUserToken(t) \/ \E v \in AllValues(t) : SetUserToken(t, v))
               => ServerUrlSame(t) /\ DataPartitionSame(t) /\ MetadataSame(t)
         /\ (ClearServerUrl(t) \/ \E v \in AllValues(t) : SetServerUrl(t, v))
               => TokenSame(t) /\ DataPartitionSame(t) /\ MetadataSame(t)
         /\ (ClearDataPartition(t) \/ \E v \in AllValues(t) : SetDataPartition(t, v))
               => TokenSame(t) /\ ServerUrlSame(t) /\ MetadataSame(t)
         /\ ( \/ ClearMetadata(t)
              \/ \E k \in MetadataKeys, v \in AllValues(t) : SetMetadata(t, k, v) )
               => TokenSame(t) /\ ServerUrlSame(t) /\ DataPartitionSame(t)
         /\ Extracts(t, TokenHeaderNames)
               => /\ ServerUrlSame(t) /\ DataPartitionSame(t)
                  /\ MetadataSameBut(t, "token_source")
         /\ Extracts(t, ServerUrlHeaderNames)
               => /\ TokenSame(t) /\ DataPartitionSame(t)
                  /\ MetadataSameBut(t, "server_url_source")
         /\ Extracts(t, DataPartitionHeaderNames)
               => /\ TokenSame(t) /\ ServerUrlSame(t)
                  /\ MetadataSameBut(t, "data_partition_source")]_vars

\* a request with only a token header is dispatched in a context that had
\* set a server URL and a metadata key: both are as they were
C26_Witness ==
    /\ InDispatch(1)
    /\ scope[1].wire = << <<USER_TOKEN_HEADER, BearerTokenOf(1)>> >>
    /\ get_request_user_token(store, 1) = TokenOf(1)
    /\ get_request_server_url(store, 1) = OtherOf(1)
    /\ get_request_data_partition(store, 1) = None
    /\ get_request_metadata(store, 1, "key1", None) = OtherOf(1)
    /\ get_request_metadata(store, 1, "server_url_source", None) = None

-----------------------------------------------------------------------------
(* Properties of the entry point *)

\* C27: for every transport setting main() is run with, a --transport choice
\* or an OSDU_MCP_TRANSPORT default, exactly one server has been started:
\* mcp.run("stdio") for stdio, uvicorn on the create_http_app() application
\* with the given host and port for streamable-http, and mcp.run("sse") with
\* the given host and port for sse.
C27_MainStartsOneServer ==
    app.setting # "none" =>
        /\ app.started = 1
        /\ app.setting = "stdio"
              => app.runner = "mcp.run" /\ app.transport = "stdio"
        /\ app.setting = "streamable-http"
              => /\ app.runner = "uvicorn.run"
                 /\ app.factory = "create_http_app"
                 /\ app.middleware = <<TokenMiddleware, CorsMiddleware>>
                 /\ app.host \in Hosts /\ app.port \in Ports
        /\ app.setting = "sse"
              => /\ app.runner = "mcp.run" /\ app.transport = "sse"
                 /\ app.host \in Hosts /\ app.port \in Ports

====
